---- MODULE Spec2Model ----
(***************************************************************************)
(* gooey: a rewriter of Go source with colon-prefixed identifiers on the   *)
(* left side of assignments.  The model follows the pipeline of            *)
(* processCode: parseFile (token rewriting, parsing, reverting), then      *)
(* xlateFile (the visitor's walk, then the application of the recorded     *)
(* changes), then printing.                                                *)
(***************************************************************************)
EXTENDS Integers, Sequences, FiniteSets, TLC

VARIABLES
    src,     \* the tokens s.Scan() returns for the source, in order
    sc,      \* parseFile's scanning state: i, last4, low, high, buf, elist
    pc,      \* where processCode is
    heap,    \* the syntax tree: node id -> node
    todo,    \* the walk's agenda: the nodes ast.Walk has still to visit
    clist,   \* x.clist
    elist,   \* x.elist
    tc,      \* the counter of temporary names
    pending, \* indexes of x.clist not yet applied
    parsed,  \* the tree as parseFile returned it, if it did
    walked,  \* the tree as the walk left it
    panics,  \* whether indexStmt panicked
    err,     \* the errors processCode hands to fatal
    gen,     \* the translated output (its tokens), if any
    run      \* 1: the source; 2: the translator on its own output

vars == <<src, sc, pc, heap, todo, clist, elist, tc, pending, parsed, walked,
          panics, err, gen, run>>

Nil == <<"nil">>

\* ------------------------------------------------------------------------
\* Bounds of the model.
MaxTokens == 5
MaxStmts == 2
MaxLhs == 2

\* ------------------------------------------------------------------------
\* Program constants.
cprefTag == "GOOEY_COLON_"
tempTag == "GOOEY_TEMP_"
\* fset2.Base() of a fresh token.FileSet
Base == 1

\* ------------------------------------------------------------------------
\* Tokens and source bytes.

Tok(t, lit, pos) == [pos |-> pos, tok |-> t, lit |-> lit]

\* The text of a token, as bytes of the source.
TokText(t) ==
    CASE t.tok = "COLON" -> <<":">>
      [] t.tok = "ASSIGN" -> <<"=">>
      [] t.tok = "COMMA" -> <<",">>
      [] t.tok = "DEFINE" -> <<":", "=">>
      [] OTHER -> t.lit

\* The position just after token t.
TokEnd(t) == t.pos + Len(TokText(t))

RECURSIVE Spaces(_)
Spaces(n) == IF n <= 0 THEN <<>> ELSE <<" ">> \o Spaces(n - 1)

\* The source bytes the tokens toks were scanned from, from position at on:
\* blanks between the tokens.
RECURSIVE BytesFrom(_, _)
BytesFrom(toks, at) ==
    IF toks = <<>> THEN <<>>
    ELSE Spaces(Head(toks).pos - at) \o TokText(Head(toks))
             \o BytesFrom(Tail(toks), TokEnd(Head(toks)))

Bytes(toks) == BytesFrom(toks, Base)

\* src[lo:hi] of Go, offsets from 0.
Slice(bytes, lo, hi) == SubSeq(bytes, lo + 1, hi)

\* ------------------------------------------------------------------------
\* parseFile: the token modifications.

ZeroTok == [pos |-> 0, tok |-> "ILLEGAL", lit |-> <<>>]

ScanInit ==
    [i |-> 0, last4 |-> [k \in 0..3 |-> ZeroTok], low |-> 0, high |-> 0,
     buf |-> <<>>, elist |-> <<>>]

\* What the i-th call of s.Scan() returns (i from 0).
Scan(toks, i) ==
    IF i < Len(toks) THEN toks[i + 1]
    ELSE [pos |-> Base + Len(Bytes(toks)), tok |-> "EOF", lit |-> <<>>]

\* The condition without the test of the token before the colon.
PromoteAlways(st, l4, t) == t.tok = "ASSIGN"

\* The condition under which "=" becomes ":=".
Promote(st, l4, t) ==
    t.tok = "ASSIGN" /\ (st.i < 3 \/ l4[(st.i - 3) % 4].tok # "COMMA")

\* The condition under which a colon is not a colon prefix.
NotPrefix(ident, colon) ==
    \/ ident.tok # "IDENT"
    \/ colon.tok # "COLON"
    \/ ident.lit = <<"_">>
    \/ colon.pos + 1 # ident.pos

\* No error for a ":=".
EvilTokenNone(el, t) == el

\* An error for the first ":=" only.
EvilTokenOnce(el, t) ==
    IF el = <<>> THEN <<[pos |-> t.pos, msg |-> "evil token"]>> ELSE el

\* elist.Add for a ":=" in the source.
EvilToken(el, t) == Append(el, [pos |-> t.pos, msg |-> "evil token"])

\* One iteration of the scanning loop on a token t that is not EOF.
LoopBody(st, t, bytes) ==
    LET l4 == [st.last4 EXCEPT ![st.i % 4] = t]
        s1 == [st EXCEPT !.last4 = l4, !.i = st.i + 1]
    IN  IF t.tok = "DEFINE"
        THEN [s1 EXCEPT !.elist = EvilToken(@, t)]
        ELSE IF st.i < 2 \/ (t.tok # "ASSIGN" /\ t.tok # "COMMA")
        THEN s1
        ELSE LET ident == l4[(st.i - 1) % 4]
                 colon == l4[(st.i - 2) % 4]
             IN  IF NotPrefix(ident, colon)
                 THEN s1
                 ELSE LET high1 == colon.pos - Base
                          b1 == st.buf \o Slice(bytes, st.low, high1)
                                       \o <<" ", cprefTag>>
                          low2 == high1 + 1
                          high2 == t.pos - Base
                          b2 == b1 \o Slice(bytes, low2, high2)
                          b3 == IF Promote(st, l4, t) THEN Append(b2, ":") ELSE b2
                      IN  [s1 EXCEPT !.buf = b3, !.low = high2, !.high = high2]

\* The loop's exit on EOF and the write of the rest of the source.
LoopExit(st, t, bytes) ==
    [st EXCEPT !.last4 = [@ EXCEPT ![st.i % 4] = t],
               !.buf = @ \o Slice(bytes, st.low, Len(bytes))]

\* The whole loop, from state st.
RECURSIVE ScanFrom(_, _, _)
ScanFrom(st, toks, bytes) ==
    LET t == Scan(toks, st.i)
    IN  IF t.tok = "EOF" THEN LoopExit(st, t, bytes)
        ELSE ScanFrom(LoopBody(st, t, bytes), toks, bytes)

ScanRun(st, toks) == ScanFrom(st, toks, Bytes(toks))

\* ------------------------------------------------------------------------
\* The syntax tree.  A node is a record with a kind; an expression is an
\* identifier (ident = TRUE) with its Name as a sequence of characters, or
\* another expression.  Positions are those of the buffer the parser read.

Ident(name) == [ident |-> TRUE, name |-> name, pos |-> 0]
Other(name) == [ident |-> FALSE, name |-> name, pos |-> 0]
NoExpr == [ident |-> FALSE, name |-> <<>>, pos |-> 0]

\* strings.HasPrefix(name, p) for a one-character p, and name[1:]
HasPrefix(name, p) == Len(name) > 0 /\ name[1] = p

RootId == 1

\* The statement list a node holds (BlockStmt.List, CaseClause.Body,
\* CommClause.Body), and the node with the list replaced.
ListOf(h, id) == h[id].list
WithList(h, id, l) == [h EXCEPT ![id].list = l]

\* ------------------------------------------------------------------------
\* The printer and the scanner: a tree's tokens, and a buffer's tokens.

LTok(t, lit, gap) == [tok |-> t, lit |-> lit, gap |-> gap, n |-> 0, k |-> 0]

\* Tags the first token of ts as the start of slot k of node n.
Tag(ts, n, k) ==
    IF ts = <<>> THEN ts ELSE <<[Head(ts) EXCEPT !.n = n, !.k = k]>> \o Tail(ts)

ExprToks(e) ==
    IF e = NoExpr THEN <<>>
    ELSE IF e.ident /\ HasPrefix(e.name, ":")
    THEN <<LTok("COLON", <<>>, 1), LTok("IDENT", Tail(e.name), 0)>>
    ELSE IF e.ident THEN <<LTok("IDENT", e.name, 1)>>
    ELSE <<LTok("IDENT", <<e.name[1]>>, 1), LTok("OTHER", Tail(e.name), 0)>>

\* A comma-separated list of the expressions es, slots k0+1.. of node n.
RECURSIVE ExprListToks(_, _, _)
ExprListToks(es, n, k0) ==
    IF es = <<>> THEN <<>>
    ELSE Tag(ExprToks(Head(es)), n, k0 + 1)
         \o (IF Len(es) > 1 THEN <<LTok("COMMA", <<>>, 0)>> ELSE <<>>)
         \o ExprListToks(Tail(es), n, k0 + 1)

Present(es) == SelectSeq(es, LAMBDA e : e # NoExpr)

RECURSIVE NodeToks(_, _)
RECURSIVE ListToks(_, _)
ListToks(h, l) ==
    IF l = <<>> THEN <<>>
    ELSE NodeToks(h, Head(l)) \o <<LTok("OTHER", <<";">>, 0)>> \o ListToks(h, Tail(l))
NodeToks(h, id) ==
    LET nd == h[id]
        body ==
          CASE nd.kind = "assign" ->
                 ExprListToks(nd.lhs, id, 0)
                   \o <<LTok(nd.tok, <<>>, 1)>>
                   \o ExprListToks(nd.rhs, id, Len(nd.lhs))
            [] nd.kind = "labeled" ->
                 <<LTok("IDENT", nd.label.name, 1), LTok("COLON", <<>>, 0)>>
                   \o NodeToks(h, nd.stmt)
            [] nd.kind = "block" ->
                 <<LTok("OTHER", <<"{">>, 1)>> \o ListToks(h, nd.list)
                   \o <<LTok("OTHER", <<"}">>, 1)>>
            [] nd.kind = "if" ->
                 <<LTok("OTHER", <<"if">>, 1)>>
                   \o (IF nd.init = 0 THEN <<>>
                       ELSE NodeToks(h, nd.init) \o <<LTok("OTHER", <<";">>, 0)>>)
                   \o <<LTok("IDENT", <<"ok">>, 1)>> \o NodeToks(h, nd.body)
            [] nd.kind = "range" ->
                 <<LTok("OTHER", <<"for">>, 1)>>
                   \o ExprListToks(Present(<<nd.key, nd.value>>), id, 0)
                   \o (IF nd.key = NoExpr THEN <<>> ELSE <<LTok(nd.tok, <<>>, 1)>>)
                   \o <<LTok("OTHER", <<"range">>, 1)>> \o ExprToks(nd.x)
                   \o NodeToks(h, nd.body)
            [] nd.kind = "select" ->
                 <<LTok("OTHER", <<"select">>, 1)>> \o NodeToks(h, nd.body)
            [] nd.kind = "comm" ->
                 (IF nd.comm = 0 THEN <<LTok("OTHER", <<"default">>, 1)>>
                  ELSE <<LTok("OTHER", <<"case">>, 1)>> \o NodeToks(h, nd.comm))
                   \o <<LTok("COLON", <<>>, 0)>> \o ListToks(h, nd.list)
            [] nd.kind = "call" ->
                 <<LTok("IDENT", nd.fun.name, 1), LTok("OTHER", <<"(">>, 0)>>
                   \o ExprListToks(nd.args, id, 0)
                   \o <<LTok("OTHER", <<")">>, 0)>>
            [] nd.kind = "decl" ->
                 <<LTok("OTHER", <<"var">>, 1)>>
                   \o ExprListToks(nd.names, id, 0)
                   \o <<LTok("ASSIGN", <<>>, 1)>>
                   \o ExprListToks(nd.values, id, Len(nd.names))
    IN  IF body = <<>> THEN body
        ELSE IF Head(body).n = 0 THEN Tag(body, id, 0) ELSE body

\* Positions for the tokens ts, the first one at position at.
RECURSIVE Place(_, _)
Place(ts, at) ==
    IF ts = <<>> THEN <<>>
    ELSE LET t == Head(ts)
             p == [pos |-> at + t.gap, tok |-> t.tok, lit |-> t.lit,
                   n |-> t.n, k |-> t.k]
         IN  <<p>> \o Place(Tail(ts), TokEnd(p))

\* format.Fprint: the tokens of the file whose body is the root block.
Fprint(h) == Place(ListToks(h, ListOf(h, RootId)), Base - 1)

Pure(ts) == [j \in 1..Len(ts) |-> Tok(ts[j].tok, ts[j].lit, ts[j].pos)]
Shape(ts) == [j \in 1..Len(ts) |-> <<ts[j].tok, ts[j].lit>>]

\* The characters identifiers are made of.
IdentChars ==
    {"a", "b", "c", "d", "f", "x", "L", "M", "ok", "_", cprefTag, tempTag}
        \cup {ToString(j) : j \in 0..9}

\* The longest prefix of bs made of identifier characters.
RECURSIVE IdentRun(_)
IdentRun(bs) ==
    IF bs = <<>> \/ Head(bs) \notin IdentChars THEN <<>>
    ELSE <<Head(bs)>> \o IdentRun(Tail(bs))

\* go/scanner on the bytes bs, which start at position at.
RECURSIVE Lex(_, _)
Lex(bs, at) ==
    IF bs = <<>> THEN <<>>
    ELSE LET c == Head(bs)
             t ==
               IF c = ":" /\ Len(bs) > 1 /\ bs[2] = "=" THEN Tok("DEFINE", <<>>, at)
               ELSE IF c = ":" THEN Tok("COLON", <<>>, at)
               ELSE IF c = "=" THEN Tok("ASSIGN", <<>>, at)
               ELSE IF c = "," THEN Tok("COMMA", <<>>, at)
               ELSE IF c \in IdentChars THEN Tok("IDENT", IdentRun(bs), at)
               ELSE Tok("OTHER", <<c>>, at)
             w == Len(TokText(t))
         IN  IF c = " " THEN Lex(Tail(bs), at + 1)
             ELSE <<t>> \o Lex(SubSeq(bs, w + 1, Len(bs)), at + w)

\* ------------------------------------------------------------------------
\* The parser (go/parser on the rewritten buffer) and parseFile's reverting.

MapSeq(es, F(_)) == [j \in 1..Len(es) |-> F(es[j])]

\* The node nd with F applied to every expression it holds directly.
MapExprs(nd, F(_)) ==
    CASE nd.kind = "assign" ->
           [nd EXCEPT !.lhs = MapSeq(@, F), !.rhs = MapSeq(@, F)]
      [] nd.kind = "labeled" -> [nd EXCEPT !.label = F(@)]
      [] nd.kind = "range" ->
           [nd EXCEPT !.key = F(@), !.value = F(@), !.x = F(@)]
      [] nd.kind = "call" -> [nd EXCEPT !.fun = F(@), !.args = MapSeq(@, F)]
      [] nd.kind = "decl" ->
           [nd EXCEPT !.names = MapSeq(@, F), !.values = MapSeq(@, F)]
      [] OTHER -> nd

\* The expressions a node holds directly, in the order ast.Walk visits them.
ExprsOf(nd) ==
    CASE nd.kind = "assign" -> nd.lhs \o nd.rhs
      [] nd.kind = "labeled" -> <<nd.label>>
      [] nd.kind = "range" -> <<nd.key, nd.value, nd.x>>
      [] nd.kind = "call" -> <<nd.fun>> \o nd.args
      [] nd.kind = "decl" -> nd.names \o nd.values
      [] OTHER -> <<>>

HasTok(nd) == nd.kind \in {"assign", "range"}

\* What the parser reads for a colon-prefixed identifier once the token
\* rewriter has encoded it.
Encoded(e) ==
    IF e.ident /\ HasPrefix(e.name, ":")
    THEN [e EXCEPT !.name = <<cprefTag>> \o Tail(e.name)] ELSE e

\* ":=" takes identifiers only on its left.
Grammatical(h) ==
    \A id \in DOMAIN h :
        (h[id].kind = "assign" /\ h[id].tok = "DEFINE")
            => \A j \in 1..Len(h[id].lhs) : h[id].lhs[j].ident

PosAt(placed, n, k) ==
    LET S == {j \in 1..Len(placed) : placed[j].n = n /\ placed[j].k = k}
    IN  IF S = {} THEN 0 ELSE placed[CHOOSE j \in S : \A m \in S : j <= m].pos

NodePosAt(placed, n) ==
    LET S == {j \in 1..Len(placed) : placed[j].n = n}
    IN  IF S = {} THEN 0 ELSE placed[CHOOSE j \in S : \A m \in S : j <= m].pos

\* The node nd (with id id) with the positions of the tokens placed.
Positioned(nd, id, placed) ==
    LET P(es, k0) == [j \in 1..Len(es) |->
                        [es[j] EXCEPT !.pos = PosAt(placed, id, k0 + j)]]
        n1 == [nd EXCEPT !.pos = NodePosAt(placed, id)]
    IN  CASE nd.kind = "assign" ->
               [n1 EXCEPT !.lhs = P(@, 0), !.rhs = P(@, Len(nd.lhs))]
          [] nd.kind = "range" ->
               [n1 EXCEPT !.key = IF @ = NoExpr THEN @
                                  ELSE [@ EXCEPT !.pos = PosAt(placed, id, 1)],
                          !.value = IF @ = NoExpr THEN @
                                    ELSE [@ EXCEPT !.pos = PosAt(placed, id, 2)]]
          [] nd.kind = "call" -> [n1 EXCEPT !.args = P(@, 0)]
          [] nd.kind = "decl" ->
               [n1 EXCEPT !.names = P(@, 0), !.values = P(@, Len(nd.names))]
          [] OTHER -> n1

\* The tree h with no positions at all.
Unplaced(h) ==
    [id \in DOMAIN h |->
        MapExprs([h[id] EXCEPT !.pos = 0], LAMBDA e : [e EXCEPT !.pos = 0])]

\* parser.ParseFile on buf: the tree of the grammar that prints as buf, or
\* none (a syntax error).  shape is the tree of the source as written, which
\* fixes the statements; the operators and the names are read from buf.
ParseFile(shape, buf) ==
    LET lx == Shape(Lex(buf, Base))
        ids == {id \in DOMAIN shape : HasTok(shape[id])}
        enc == [id \in DOMAIN shape |-> MapExprs(shape[id], Encoded)]
        cand(f) == [id \in DOMAIN shape |->
                      IF id \in ids THEN [enc[id] EXCEPT !.tok = f[id]] ELSE enc[id]]
        ok == {f \in [ids -> {"ASSIGN", "DEFINE"}] :
                 Grammatical(cand(f)) /\ Shape(Fprint(cand(f))) = lx}
    IN  IF ok = {} THEN [ok |-> FALSE, tree |-> shape]
        ELSE LET t == cand(CHOOSE f \in ok : TRUE)
                 placed == Fprint(t)
             IN  [ok |-> TRUE,
                  tree |-> [id \in DOMAIN t |-> Positioned(t[id], id, placed)]]

\* ast.Inspect at the end of parseFile: ":=" back to "=", and the encoded
\* names back to colon-prefixed ones.
RevertIdent(e) ==
    IF e.ident /\ HasPrefix(e.name, cprefTag)
    THEN [e EXCEPT !.name = <<":">> \o Tail(e.name)] ELSE e

Revert(h) ==
    [id \in DOMAIN h |->
        LET nd == MapExprs(h[id], RevertIdent)
        IN  IF HasTok(nd) /\ nd.tok = "DEFINE" THEN [nd EXCEPT !.tok = "ASSIGN"]
            ELSE nd]

\* ------------------------------------------------------------------------
\* xlateFile: the visitor.

NewVisitor == [comm |-> 0, init |-> FALSE, list |-> 0, ilabel |-> 0, olabel |-> 0]

\* The "type" with "_" taken for a target like another.
KindOfNamed(e) ==
    IF e = NoExpr THEN "ILLEGAL"
    ELSE IF e.ident /\ HasPrefix(e.name, ":") THEN "VAR"
    ELSE "ASSIGN"

\* processLhs: the "type" of one expression.
KindOf(e) ==
    IF e = NoExpr THEN "ILLEGAL"
    ELSE IF ~e.ident THEN "ASSIGN"
    ELSE IF HasPrefix(e.name, ":") THEN "VAR"
    ELSE IF e.name # <<"_">> THEN "ASSIGN"
    ELSE "ILLEGAL"

\* The expression left as it is.
StripNone(e) == e

\* processLhs: the expression as it leaves it (the colon removed).
Strip(e) ==
    IF e # NoExpr /\ e.ident /\ HasPrefix(e.name, ":")
    THEN [e EXCEPT !.name = Tail(e.name)] ELSE e

Count(kind, k) == Cardinality({j \in 1..Len(kind) : kind[j] = k})

processLhs(lhs) ==
    LET kind == [j \in 1..Len(lhs) |-> KindOf(lhs[j])]
    IN  [decl |-> Count(kind, "VAR"), assign |-> Count(kind, "ASSIGN"),
         kind |-> kind, lhs |-> [j \in 1..Len(lhs) |-> Strip(lhs[j])]]

ErrAt(pos, msg) == [pos |-> pos, msg |-> msg]

\* The change with the assignment itself as c.ref.
NewChangeSelf(v, a, p) ==
    [assign |-> a, list |-> v.list, ptr |-> v.ilabel, ref |-> a,
     kind |-> IF p.assign > 0 THEN p.kind ELSE Nil]

\* The change assignStmt records for the assignment a under the visitor v.
NewChange(v, a, p) ==
    [assign |-> a, list |-> v.list,
     ptr |-> v.ilabel,
     ref |-> IF v.ilabel # 0 THEN v.olabel ELSE a,
     kind |-> IF p.assign > 0 THEN p.kind ELSE Nil]

\* The test without the communication statement.
InInitOnly(v, a) == v.init

\* Whether assignStmt treats a as an init or communication statement.
InInit(v, a) == v.init \/ v.comm = a

\* assignStmt: the tree, the errors and the changes after the call.
assignStmt(v, a, h, el, cl) ==
    LET p == processLhs(h[a].lhs)
        h1 == [h EXCEPT ![a].lhs = p.lhs]
    IN  IF p.decl = 0 THEN [heap |-> h1, elist |-> el, clist |-> cl]
        ELSE IF InInit(v, a)
        THEN IF p.assign = 0
             THEN [heap |-> [h1 EXCEPT ![a].tok = "DEFINE"], elist |-> el,
                   clist |-> cl]
             ELSE [heap |-> h1,
                   elist |-> Append(el, ErrAt(h[a].pos,
                                 "mixed assignment in init statement")),
                   clist |-> cl]
        ELSE [heap |-> h1, elist |-> el, clist |-> Append(cl, NewChange(v, a, p))]

\* rangeStmt
rangeStmt(v, r, h, el, cl) ==
    LET p == processLhs(<<h[r].key, h[r].value>>)
        h1 == [h EXCEPT ![r].key = p.lhs[1], ![r].value = p.lhs[2]]
    IN  IF p.decl = 0 THEN [heap |-> h1, elist |-> el, clist |-> cl]
        ELSE IF p.assign = 0
        THEN [heap |-> [h1 EXCEPT ![r].tok = "DEFINE"], elist |-> el, clist |-> cl]
        ELSE [heap |-> h1,
              elist |-> Append(el, ErrAt(h[r].pos, "mixed assignment in range")),
              clist |-> cl]

\* An error for the first mistake only.
identFirst(e, el) ==
    IF HasPrefix(e.name, ":") /\ el = <<>>
    THEN <<ErrAt(e.pos, "unexpected colon-prefix")>> ELSE el

\* ident
ident(e, el) ==
    IF HasPrefix(e.name, ":")
    THEN Append(el, ErrAt(e.pos, "unexpected colon-prefix")) ELSE el

\* The visitor Visit returns for the children of node n.
ChildVisitor(v, n, h) ==
    CASE h[n].kind = "block" -> [NewVisitor EXCEPT !.list = n]
      [] h[n].kind = "comm" -> [NewVisitor EXCEPT !.list = n, !.comm = h[n].comm]
      [] h[n].kind = "labeled" ->
           [NewVisitor EXCEPT !.list = v.list, !.ilabel = n,
                              !.olabel = IF v.olabel # 0 THEN v.olabel ELSE n]
      [] h[n].kind = "if" -> [NewVisitor EXCEPT !.init = TRUE]
      [] OTHER -> NewVisitor

Entry(id, slot, v) == [id |-> id, slot |-> slot, v |-> v]

\* ast.Walk: the children of node n, in order, to be visited with v2.  Of
\* the expressions, the identifiers: Visit does nothing on the others.
Children(n, h, v2) ==
    LET nd == h[n]
        es == ExprsOf(nd)
        idents == SelectSeq([j \in 1..Len(es) |-> Entry(n, j, v2)],
                            LAMBDA c : es[c.slot] # NoExpr /\ es[c.slot].ident)
        stmts(l) == [j \in 1..Len(l) |-> Entry(l[j], 0, v2)]
        opt(id) == IF id = 0 THEN <<>> ELSE <<Entry(id, 0, v2)>>
    IN  CASE nd.kind = "block" -> stmts(nd.list)
          [] nd.kind = "comm" -> opt(nd.comm) \o stmts(nd.list)
          [] nd.kind = "labeled" -> idents \o opt(nd.stmt)
          [] nd.kind = "if" -> opt(nd.init) \o opt(nd.body)
          [] nd.kind = "range" -> idents \o opt(nd.body)
          [] nd.kind = "select" -> opt(nd.body)
          [] OTHER -> idents

\* scanner.ErrorList.Sort: by position.
RECURSIVE Insert(_, _)
Insert(e, l) ==
    IF l = <<>> THEN <<e>>
    ELSE IF e.pos < Head(l).pos THEN <<e>> \o l
    ELSE <<Head(l)>> \o Insert(e, Tail(l))
RECURSIVE Sort(_)
Sort(l) == IF l = <<>> THEN <<>> ELSE Insert(Head(l), Sort(Tail(l)))

\* ------------------------------------------------------------------------
\* xlateFile: the changes.

NewId(h) == (CHOOSE m \in DOMAIN h : \A j \in DOMAIN h : j <= m) + 1

makeDecl(names, values) ==
    [kind |-> "decl", pos |-> 0, names |-> names, values |-> values]

\* indexStmt: the index of stmt in list, 0 where the code panics.
indexStmt(list, stmt) ==
    LET S == {j \in 1..Len(list) : list[j] = stmt}
    IN  IF S = {} THEN 0 ELSE CHOOSE j \in S : \A m \in S : j <= m

\* The declaration put in the list, in the place of c.ref.
applyNonMixedRef(c, h) ==
    LET id == NewId(h)
        h1 == h @@ (id :> makeDecl(h[c.assign].lhs, h[c.assign].rhs))
        pos == indexStmt(ListOf(h, c.list), c.ref)
    IN  IF pos = 0 THEN [heap |-> h, panics |-> TRUE]
        ELSE [heap |-> WithList(h1, c.list, [ListOf(h, c.list) EXCEPT ![pos] = id]),
              panics |-> FALSE]

\* applyNonMixed: the tree after it, and whether it panicked.
applyNonMixed(c, h) ==
    LET a == h[c.assign]
        decl == makeDecl(a.lhs, a.rhs)
        id == NewId(h)
        h1 == h @@ (id :> decl)
        pos == indexStmt(ListOf(h, c.list), c.assign)
    IN  IF \E j \in 1..Len(a.lhs) : ~a.lhs[j].ident
        THEN [heap |-> h, panics |-> TRUE]
        ELSE IF c.ptr # 0
        THEN [heap |-> [h1 EXCEPT ![c.ptr].stmt = id], panics |-> FALSE]
        ELSE IF pos = 0 THEN [heap |-> h, panics |-> TRUE]
        ELSE [heap |-> WithList(h1, c.list, [ListOf(h, c.list) EXCEPT ![pos] = id]),
              panics |-> FALSE]

TempName(n) == <<tempTag, ToString(n)>>

\* The number of targets among the first j that take a temporary.
TempsBefore(kind, j) == Cardinality({m \in 1..j : kind[m] # "ILLEGAL"})

\* An assignment for every target.
AfterStmtAssign(k, expr, temp) ==
    [kind |-> "assign", pos |-> 0, lhs |-> <<expr>>, tok |-> "ASSIGN",
     rhs |-> <<temp>>]

\* The statement applyMixed adds for target expr, bound to temp.
AfterStmt(k, expr, temp) ==
    IF k = "VAR" THEN makeDecl(<<expr>>, <<temp>>)
    ELSE [kind |-> "assign", pos |-> 0, lhs |-> <<expr>>, tok |-> "ASSIGN",
          rhs |-> <<temp>>]

\* applyMixed: the tree after it, the counter, and whether it panicked.
applyMixed(c, h, t) ==
    LET lhs == h[c.assign].lhs
        taken == {j \in 1..Len(lhs) : c.kind[j] # "ILLEGAL"}
        temp(j) == Ident(TempName(t + TempsBefore(c.kind, j) - 1))
        newLhs == [j \in 1..Len(lhs) |-> IF j \in taken THEN temp(j) ELSE lhs[j]]
        id0 == NewId(h)
        afterId(j) == id0 + TempsBefore(c.kind, j) - 1
        after == [m \in 1..Cardinality(taken) |->
                    afterId(CHOOSE j \in taken : TempsBefore(c.kind, j) = m)]
        new == [id \in {afterId(j) : j \in taken} |->
                  LET j == CHOOSE j \in taken : afterId(j) = id
                  IN  AfterStmt(c.kind[j], lhs[j], temp(j))]
        h1 == [h EXCEPT ![c.assign].tok = "DEFINE", ![c.assign].lhs = newLhs] @@ new
        list == ListOf(h, c.list)
        pos == indexStmt(list, c.ref)
    IN  IF pos = 0 THEN [heap |-> h, tc |-> t, panics |-> TRUE]
        ELSE [heap |-> WithList(h1, c.list,
                          SubSeq(list, 1, pos) \o after
                              \o SubSeq(list, pos + 1, Len(list))),
              tc |-> t + Cardinality(taken), panics |-> FALSE]

\* apply
apply(c, h, t) ==
    IF c.kind = Nil
    THEN LET r == applyNonMixed(c, h)
         IN  [heap |-> r.heap, tc |-> t, panics |-> r.panics]
    ELSE applyMixed(c, h, t)

\* ------------------------------------------------------------------------
\* The sources the model runs on: a function body of at most MaxStmts
\* statements, each an assignment of at most MaxLhs targets in one of the
\* places an assignment can stand, or a call.

\* The nodes one statement of the body takes.
Stride == 4

Letter(j) == <<"a", "b", "c", "d">>[j]

\* A target as written: D a colon-prefixed identifier, A a plain one, I the
\* blank identifier, X an expression that is no identifier.
Target(k, j) ==
    CASE k = "D" -> Ident(<<":", Letter(j)>>)
      [] k = "A" -> Ident(<<Letter(j)>>)
      [] k = "I" -> Ident(<<"_">>)
      [] k = "X" -> Other(<<Letter(j), "[i]">>)

Targets(ks) == [j \in 1..Len(ks) |-> Target(ks[j], j)]

Rhs == <<Other(<<"f", "()">>)>>

Assign(ks, op) ==
    [kind |-> "assign", pos |-> 0, lhs |-> Targets(ks), tok |-> op, rhs |-> Rhs]
Labeled(l, id) == [kind |-> "labeled", pos |-> 0, label |-> Ident(<<l>>), stmt |-> id]
Block(l) == [kind |-> "block", pos |-> 0, list |-> l]

\* The nodes of the statement it, from id b + 1 on; b + 1 is the statement.
ItemNodes(it, b) ==
    LET a == Assign(it.lhs, it.op)
    IN  CASE it.shape = "plain" -> (b + 1) :> a
          [] it.shape = "label1" -> ((b + 1) :> Labeled("L", b + 2)) @@ ((b + 2) :> a)
          [] it.shape = "label2" ->
               ((b + 1) :> Labeled("L", b + 2)) @@ ((b + 2) :> Labeled("M", b + 3))
                 @@ ((b + 3) :> a)
          [] it.shape = "block" -> ((b + 1) :> Block(<<b + 2>>)) @@ ((b + 2) :> a)
          [] it.shape = "if" ->
               ((b + 1) :> [kind |-> "if", pos |-> 0, init |-> b + 2, body |-> b + 3])
                 @@ ((b + 2) :> a) @@ ((b + 3) :> Block(<<>>))
          [] it.shape = "range" ->
               ((b + 1) :> [kind |-> "range", pos |-> 0, key |-> a.lhs[1],
                            value |-> IF Len(a.lhs) > 1 THEN a.lhs[2] ELSE NoExpr,
                            tok |-> it.op, x |-> Ident(<<"x">>), body |-> b + 2])
                 @@ ((b + 2) :> Block(<<>>))
          [] it.shape = "select" ->
               ((b + 1) :> [kind |-> "select", pos |-> 0, body |-> b + 2])
                 @@ ((b + 2) :> Block(<<b + 3>>))
                 @@ ((b + 3) :> [kind |-> "comm", pos |-> 0, comm |-> b + 4,
                                 list |-> <<>>])
                 @@ ((b + 4) :> a)
          [] it.shape = "call" ->
               (b + 1) :> [kind |-> "call", pos |-> 0, fun |-> Ident(<<"f">>),
                           args |-> a.lhs]

ItemBase(j) == RootId + (j - 1) * Stride

RECURSIVE BuildFrom(_, _)
BuildFrom(items, j) ==
    IF j > Len(items) THEN <<>>
    ELSE ItemNodes(items[j], ItemBase(j)) @@ BuildFrom(items, j + 1)

\* The tree of the function whose body is the statements items.
Build(items) ==
    (RootId :> Block([j \in 1..Len(items) |-> ItemBase(j) + 1]))
        @@ BuildFrom(items, 1)

TargetKinds == {"D", "A", "I", "X"}
Shapes == {"plain", "label1", "label2", "block", "if", "range", "select", "call"}

\* The left sides: one target of any kind, or several with a colon-prefixed
\* identifier among them.
LhsSet ==
    UNION {{ks \in [1..n -> TargetKinds] :
               n = 1 \/ \E j \in 1..n : ks[j] = "D"} : n \in 1..MaxLhs}

\* A range statement has a key and a value at most; a call takes
\* identifiers; ":=" is written in a plain statement or an if.
Items ==
    {it \in [shape : Shapes, lhs : LhsSet, op : {"ASSIGN", "DEFINE"}] :
        /\ it.shape = "range" => Len(it.lhs) <= 2
        /\ it.shape = "call" =>
             it.op = "ASSIGN" /\ \A j \in 1..Len(it.lhs) : it.lhs[j] \in {"D", "A"}
        /\ it.op = "DEFINE" =>
             /\ it.shape \in {"plain", "if"}
             /\ \A j \in 1..Len(it.lhs) : it.lhs[j] \in {"A", "I"}}

Item(shape, lhs, op) == [shape |-> shape, lhs |-> lhs, op |-> op]

\* The statements around the one under study: a declaration, a mixed
\* assignment, a ":=" and a call with a colon-prefixed argument.
ContextItems ==
    {Item("plain", <<"D">>, "ASSIGN"), Item("plain", <<"D", "A">>, "ASSIGN"),
     Item("plain", <<"A">>, "DEFINE"), Item("call", <<"D", "A">>, "ASSIGN")}

\* ------------------------------------------------------------------------
\* processCode on a source: parseFile, xlateFile, print2buf.

NoOutput == [ok |-> FALSE, toks |-> <<>>]
NoTree == [ok |-> FALSE, tree |-> <<>>]

Start(h, toks) ==
    /\ src = toks
    /\ sc = ScanInit
    /\ heap = h
    /\ todo = <<>>
    /\ clist = <<>>
    /\ elist = <<>>
    /\ tc = 0
    /\ pending = {}
    /\ parsed = NoTree
    /\ walked = h
    /\ panics = FALSE
    /\ err = <<>>
    /\ gen = NoOutput
    /\ run = 1

\* Before parseFile, heap is the source as written: src is its tokens.
Init ==
    /\ pc = "start"
    /\ \E n \in 0..MaxStmts, k \in 1..MaxStmts, it \in Items :
           \E ctx \in [(1..n) \ {k} -> ContextItems] :
               /\ k <= n \/ (n = 0 /\ k = 1 /\ it \in ContextItems)
               /\ LET h == Build([j \in 1..n |-> IF j = k THEN it ELSE ctx[j]])
                  IN  Start(h, Pure(Fprint(h)))

\* parseFile: the token modifications, the parser and the reverting; on
\* an error processCode calls fatal.
parseFile ==
    /\ pc = "start"
    /\ LET st == ScanRun(ScanInit, src)
           t == ParseFile(Unplaced(heap), st.buf)
       IN  /\ sc' = st
           /\ IF st.elist # <<>>
              THEN /\ err' = st.elist
                   /\ pc' = "fatal"
                   /\ UNCHANGED <<heap, todo, parsed>>
              ELSE IF ~t.ok
              THEN /\ err' = <<ErrAt(0, "syntax error")>>
                   /\ pc' = "fatal"
                   /\ UNCHANGED <<heap, todo, parsed>>
              ELSE /\ heap' = Revert(t.tree)
                   /\ parsed' = [ok |-> TRUE, tree |-> Revert(t.tree)]
                   /\ todo' = <<Entry(RootId, 0, NewVisitor)>>
                   /\ pc' = "walk"
                   /\ UNCHANGED err
    /\ UNCHANGED <<src, clist, elist, tc, pending, walked, panics, gen, run>>

\* Visit, on the next node of the walk.
Visit ==
    /\ pc = "walk"
    /\ todo # <<>>
    /\ LET e == Head(todo)
           nd == heap[e.id]
           v2 == ChildVisitor(e.v, e.id, heap)
           r == IF e.slot > 0
                THEN [heap |-> heap, clist |-> clist,
                      elist |-> ident(ExprsOf(nd)[e.slot], elist)]
                ELSE IF nd.kind = "assign"
                THEN assignStmt(e.v, e.id, heap, elist, clist)
                ELSE IF nd.kind = "range"
                THEN rangeStmt(e.v, e.id, heap, elist, clist)
                ELSE [heap |-> heap, clist |-> clist, elist |-> elist]
       IN  /\ heap' = r.heap
           /\ clist' = r.clist
           /\ elist' = r.elist
           /\ todo' = (IF e.slot > 0 THEN <<>> ELSE Children(e.id, r.heap, v2))
                          \o Tail(todo)
    /\ UNCHANGED <<src, sc, pc, tc, pending, parsed, walked, panics, err, gen,
                   run>>

\* xlateFile after the walk: the sorted errors, or the changes to apply.
WalkEnd ==
    /\ pc = "walk"
    /\ todo = <<>>
    /\ IF Len(elist) > 0
       THEN /\ err' = Sort(elist)
            /\ elist' = Sort(elist)
            /\ pc' = "fatal"
            /\ UNCHANGED <<pending, walked>>
       ELSE /\ pc' = "apply"
            /\ pending' = 1..Len(clist)
            /\ walked' = heap
            /\ UNCHANGED <<err, elist>>
    /\ UNCHANGED <<src, sc, heap, todo, clist, tc, parsed, panics, gen, run>>

\* c.apply(&tc) on change j of x.clist.
Apply(j) ==
    /\ pc = "apply"
    /\ j \in pending
    /\ LET r == apply(clist[j], heap, tc)
       IN  IF r.panics
           THEN /\ panics' = TRUE
                /\ pc' = "panic"
                /\ UNCHANGED <<heap, tc, pending>>
           ELSE /\ heap' = r.heap
                /\ tc' = r.tc
                /\ pending' = pending \ {j}
                /\ UNCHANGED <<panics, pc>>
    /\ UNCHANGED <<src, sc, todo, clist, elist, parsed, walked, err, gen, run>>

\* for _, c := range x.clist: the changes in the order of the list.
ApplyNext == \E j \in pending : (\A m \in pending : j <= m) /\ Apply(j)

\* print2buf of the translated file.
print2buf ==
    /\ pc = "apply"
    /\ pending = {}
    /\ gen' = [ok |-> TRUE, toks |-> Pure(Fprint(heap))]
    /\ pc' = "done"
    /\ UNCHANGED <<src, sc, heap, todo, clist, elist, tc, pending, parsed,
                   walked, panics, err, run>>

Next == parseFile \/ Visit \/ WalkEnd \/ ApplyNext \/ print2buf

Spec == Init /\ [][Next]_vars

\* ------------------------------------------------------------------------
\* The changes applied in any order, where xlateFile takes them in the
\* order of the list.

ApplyAny == \E j \in pending : Apply(j)

NextOrder == parseFile \/ Visit \/ WalkEnd \/ ApplyAny \/ print2buf

SpecOrder == Init /\ [][NextOrder]_vars

\* ------------------------------------------------------------------------
\* The translator on its own output: the translated file is the source of
\* a second run.

Rerun ==
    /\ pc = "done"
    /\ run = 1
    /\ run' = 2
    /\ pc' = "start"
    /\ src' = gen.toks
    /\ sc' = ScanInit
    /\ clist' = <<>>
    /\ tc' = 0
    /\ gen' = NoOutput
    /\ parsed' = NoTree
    /\ walked' = heap
    /\ UNCHANGED <<heap, todo, elist, pending, panics, err>>

NextTwice == Next \/ Rerun

SpecTwice == Init /\ [][NextTwice]_vars

\* ------------------------------------------------------------------------
\* parseFile's scanning loop alone, one token at a time, on any tokens.

\* The tokens a source is made of; an identifier may follow a blank.
TokenSet ==
    {<<"COLON", <<>>, 0>>, <<"ASSIGN", <<>>, 0>>, <<"COMMA", <<>>, 0>>,
     <<"DEFINE", <<>>, 0>>, <<"OTHER", <<"(">>, 0>>,
     <<"IDENT", <<"a">>, 0>>, <<"IDENT", <<"a">>, 1>>, <<"IDENT", <<"_">>, 0>>}

\* The tokens ts, each one placed after the one before and its blanks.
RECURSIVE PlaceTokens(_, _)
PlaceTokens(ts, at) ==
    IF ts = <<>> THEN <<>>
    ELSE LET t == Tok(Head(ts)[1], Head(ts)[2], at + Head(ts)[3])
         IN  <<t>> \o PlaceTokens(Tail(ts), TokEnd(t))

InitScan ==
    /\ pc = "scan"
    /\ \E n \in 0..MaxTokens : \E ts \in [1..n -> TokenSet] :
           LET toks == PlaceTokens(ts, Base)
           IN  /\ Lex(Bytes(toks), Base) = toks
               /\ Start(<<>>, toks)

\* An iteration of the loop, on a token that is not EOF.
ScanToken ==
    /\ pc = "scan"
    /\ Scan(src, sc.i).tok # "EOF"
    /\ sc' = LoopBody(sc, Scan(src, sc.i), Bytes(src))
    /\ UNCHANGED <<src, pc, heap, todo, clist, elist, tc, pending, parsed,
                   walked, panics, err, gen, run>>

\* The end of the loop: the errors go to fatal, or the buffer to the parser.
ScanEOF ==
    /\ pc = "scan"
    /\ Scan(src, sc.i).tok = "EOF"
    /\ sc' = LoopExit(sc, Scan(src, sc.i), Bytes(src))
    /\ IF Len(sc.elist) > 0
       THEN err' = sc.elist /\ pc' = "fatal"
       ELSE err' = err /\ pc' = "parse"
    /\ UNCHANGED <<src, heap, todo, clist, elist, tc, pending, parsed, walked,
                   panics, gen, run>>

NextScan == ScanToken \/ ScanEOF

SpecScan == InitScan /\ [][NextScan]_vars

\* ------------------------------------------------------------------------
\* Properties of the token modifications, on any tokens (SpecScan).

\* The scanning loop has ended.
Scanned == pc \in {"parse", "fatal"}

\* Token k of toks is a colon followed, at the very next byte, by an
\* identifier other than "_" that is followed by "=" or ",".
ColonPrefixAt(toks, k) ==
    /\ k >= 1 /\ k + 2 <= Len(toks)
    /\ toks[k].tok = "COLON"
    /\ toks[k + 1].tok = "IDENT"
    /\ toks[k + 1].lit # <<"_">>
    /\ toks[k + 1].pos = toks[k].pos + 1
    /\ toks[k + 2].tok \in {"ASSIGN", "COMMA"}

\* Token k of toks is the "=" that ends such a sequence, and the token
\* before the colon is missing or is not a comma.
DefineAt(toks, k) ==
    /\ k >= 3 /\ k <= Len(toks)
    /\ toks[k].tok = "ASSIGN"
    /\ ColonPrefixAt(toks, k - 2)
    /\ (k - 3 >= 1 => toks[k - 3].tok # "COMMA")

\* The text of token k after the modifications.
RewrittenText(toks, k) ==
    IF ColonPrefixAt(toks, k) THEN <<" ", cprefTag>>
    ELSE IF DefineAt(toks, k) THEN <<":", "=">>
    ELSE TokText(toks[k])

\* The source with each token replaced by its rewritten text.
RECURSIVE RewrittenFrom(_, _)
RewrittenFrom(toks, k) ==
    IF k > Len(toks) THEN <<>>
    ELSE Spaces(toks[k].pos - (IF k = 1 THEN Base ELSE TokEnd(toks[k - 1])))
             \o RewrittenText(toks, k) \o RewrittenFrom(toks, k + 1)

\* The tokens of the modified buffer.
BufToks == Lex(sc.buf, Base)

IsEncoded(t) == t.tok = "IDENT" /\ HasPrefix(t.lit, cprefTag)

\* C9: a colon is encoded exactly when an identifier other than "_" starts
\* at the next byte and is followed by "=" or ","; that "=" becomes ":="
\* exactly when the token before the colon is missing or is not a comma; all
\* the other bytes are copied.  Hence, when the source has no ":=", the
\* buffer has no ":=" after an encoded identifier that follows a comma.
C9_Rewrite ==
    Scanned =>
        /\ sc.buf = RewrittenFrom(src, 1)
        /\ (\A k \in 1..Len(src) : src[k].tok # "DEFINE") =>
               \A k \in 3..Len(BufToks) :
                   (BufToks[k].tok = "DEFINE" /\ IsEncoded(BufToks[k - 1]))
                       => BufToks[k - 2].tok # "COMMA"

\* An encoded identifier after a comma, followed by a "=" that stays "=",
\* and another one, first in the source, whose "=" becomes ":=".
C9_Witness ==
    /\ Scanned
    /\ \E k \in 2..Len(src) :
           /\ ColonPrefixAt(src, k)
           /\ src[k - 1].tok = "COMMA"
           /\ src[k + 2].tok = "ASSIGN"
           /\ ~DefineAt(src, k + 2)
           /\ \E j \in 1..Len(BufToks) : IsEncoded(BufToks[j])

\* The errors for the ":=" among the first n tokens of toks, in order.
RECURSIVE DefineErrors(_, _)
DefineErrors(toks, n) ==
    IF n = 0 THEN <<>>
    ELSE IF toks[n].tok = "DEFINE"
    THEN Append(DefineErrors(toks, n - 1), [pos |-> toks[n].pos, msg |-> "evil token"])
    ELSE DefineErrors(toks, n - 1)

HasDefine(toks) == \E k \in 1..Len(toks) : toks[k].tok = "DEFINE"

\* C5: each ":=" of the source is recorded as an error when it is scanned,
\* wherever it stands; the scan goes on to the end of the source; and a
\* source with a ":=" ends in the errors, one for each ":=", with no tree,
\* no walk and no output.
C5_Lexical ==
    /\ sc.elist = DefineErrors(src, sc.i)
    /\ Scanned =>
           /\ sc.i = Len(src)
           /\ HasDefine(src) =>
                  /\ pc = "fatal"
                  /\ err = DefineErrors(src, Len(src))
                  /\ Len(err) = Cardinality({k \in 1..Len(src) : src[k].tok = "DEFINE"})
                  /\ ~parsed.ok /\ ~gen.ok
                  /\ todo = <<>> /\ clist = <<>>

\* Two ":=" in different contexts, one of them after a colon-prefixed
\* identifier, both reported.
C5_Witness ==
    /\ pc = "fatal"
    /\ Len(err) = 2
    /\ \E k \in 3..Len(src) : src[k].tok = "DEFINE" /\ src[k - 2].tok = "COLON"

\* ------------------------------------------------------------------------
\* Properties of the walk (Spec), stated on the tree parseFile returned.

Range(l) == {l[j] : j \in 1..Len(l)}

IsMarked(e) == e # NoExpr /\ e.ident /\ HasPrefix(e.name, ":")
IsDiscard(e) == e = NoExpr \/ (e.ident /\ e.name = <<"_">>)
IsPlain(e) == ~IsMarked(e) /\ ~IsDiscard(e)

\* The targets of an assignment or of a range statement.
TargetsOf(nd) ==
    CASE nd.kind = "assign" -> nd.lhs
      [] nd.kind = "range" -> <<nd.key, nd.value>>
      [] OTHER -> <<>>

Declares(nd) == \E j \in 1..Len(TargetsOf(nd)) : IsMarked(TargetsOf(nd)[j])
Reassigns(nd) == \E j \in 1..Len(TargetsOf(nd)) : IsPlain(TargetsOf(nd)[j])
MixedNode(nd) == Declares(nd) /\ Reassigns(nd)
DeclNode(nd) == Declares(nd) /\ ~Reassigns(nd)

\* Node id of h is the init statement of an if, the communication of a
\* select clause, or a range statement.
InitPosition(h, id) ==
    \/ h[id].kind = "range"
    \/ /\ h[id].kind = "assign"
       /\ \E p \in DOMAIN h :
              \/ h[p].kind = "if" /\ h[p].init = id
              \/ h[p].kind = "comm" /\ h[p].comm = id

MixedMsg(nd) ==
    IF nd.kind = "range" THEN "mixed assignment in range"
    ELSE "mixed assignment in init statement"

MixedErrors(h) ==
    {ErrAt(h[id].pos, MixedMsg(h[id])) :
        id \in {n \in DOMAIN h : InitPosition(h, n) /\ MixedNode(h[n])}}

\* The expressions of a node that are no targets.
NonTargets(nd) ==
    CASE nd.kind = "assign" -> nd.rhs
      [] nd.kind = "range" -> <<nd.x>>
      [] OTHER -> ExprsOf(nd)

\* The colon-prefixed identifiers of h that are no targets.
StrayIdents(h) ==
    UNION {{e \in Range(NonTargets(h[id])) : IsMarked(e)} : id \in DOMAIN h}

UnexpectedErrors(h) ==
    {ErrAt(e.pos, "unexpected colon-prefix") : e \in StrayIdents(h)}

ClassErrors(h) == MixedErrors(h) \cup UnexpectedErrors(h)

\* The statements of h are those of g, in the same lists.
SameStatements(h, g) ==
    /\ DOMAIN h = DOMAIN g
    /\ \A n \in DOMAIN h :
           /\ h[n].kind = g[n].kind
           /\ h[n].kind \in {"block", "comm"} => h[n].list = g[n].list
           /\ h[n].kind = "labeled" => h[n].stmt = g[n].stmt

\* C3: an assignment that is an init statement or the communication of a
\* select clause, or a range statement, with a colon-prefixed target and a
\* plain one: its operator stays "=", the run ends in fatal with the mixed
\* assignment error at its position, no change is applied and nothing is
\* printed.
C3_MixedInit ==
    parsed.ok =>
        \A id \in DOMAIN parsed.tree :
            (InitPosition(parsed.tree, id) /\ MixedNode(parsed.tree[id])) =>
                /\ heap[id].tok = "ASSIGN"
                /\ pc \in {"walk", "fatal"}
                /\ pc = "fatal" =>
                       ErrAt(parsed.tree[id].pos, MixedMsg(parsed.tree[id]))
                           \in Range(err)
                /\ \A j \in 1..Len(clist) : clist[j].assign # id
                /\ pending = {} /\ tc = 0
                /\ SameStatements(heap, parsed.tree)
                /\ ~gen.ok

\* "if :a, b = f(); ok {}" and a mixed communication, after the walk.
C3_Witness ==
    /\ pc = "fatal" /\ parsed.ok
    /\ \E p \in DOMAIN parsed.tree :
           /\ parsed.tree[p].kind = "if"
           /\ MixedNode(parsed.tree[parsed.tree[p].init])
           /\ Len(clist) > 0

\* The positions of a node and of its targets.
PositionsOf(nd) ==
    {nd.pos} \cup {TargetsOf(nd)[j].pos : j \in 1..Len(TargetsOf(nd))}

\* C4: an assignment in init or communication position, or a range
\* statement, whose targets are colon-prefixed identifiers and "_" only:
\* once visited its operator is ":=" and its targets are the names without
\* the colon, "_" as it was; no error is recorded for it and no change; and
\* a file with no other mistake is printed, with ":=" in the header.
C4_DeclInit ==
    parsed.ok =>
        \A id \in DOMAIN parsed.tree :
            (InitPosition(parsed.tree, id) /\ DeclNode(parsed.tree[id])) =>
                LET was == TargetsOf(parsed.tree[id])
                    now == TargetsOf(heap[id])
                IN  /\ \A e \in Range(elist) \cup Range(err) :
                           e.pos \notin PositionsOf(parsed.tree[id])
                    /\ \A j \in 1..Len(clist) : clist[j].assign # id
                    /\ pc # "walk" =>
                           /\ heap[id].tok = "DEFINE"
                           /\ \A j \in 1..Len(was) :
                                  /\ IsMarked(was[j]) =>
                                         now[j] = [was[j] EXCEPT !.name = Tail(@)]
                                  /\ IsDiscard(was[j]) => now[j] = was[j]
                    /\ (pc # "walk" /\ ClassErrors(parsed.tree) = {}) =>
                           pc \in {"apply", "done"}
                    /\ pc = "done" =>
                           /\ gen.ok
                           /\ \E k \in 1..Len(gen.toks) : gen.toks[k].tok = "DEFINE"

\* "if _, :b = f(); ok {}" translated.
C4_Witness ==
    /\ pc = "done" /\ parsed.ok
    /\ \E p \in DOMAIN parsed.tree :
           /\ parsed.tree[p].kind = "if"
           /\ LET was == parsed.tree[parsed.tree[p].init].lhs
              IN  Len(was) = 2 /\ IsDiscard(was[1]) /\ IsMarked(was[2])
           /\ heap[heap[p].init].tok = "DEFINE"

\* The identifiers of the tree h.
IdentsOf(h) ==
    UNION {{e \in Range(ExprsOf(h[id])) : e # NoExpr /\ e.ident} : id \in DOMAIN h}

Unexpected(l) == {e \in Range(l) : e.msg = "unexpected colon-prefix"}

\* C8: the unexpected colon-prefix errors are never for a target of an
\* assignment or of a range statement; after the walk they are those of all
\* the colon-prefixed identifiers elsewhere; and a tree that got no error
\* has no identifier that begins with a colon.
C8_Unexpected ==
    parsed.ok =>
        /\ Unexpected(elist) \subseteq UnexpectedErrors(parsed.tree)
        /\ pc # "walk" => Unexpected(elist) = UnexpectedErrors(parsed.tree)
        /\ pc = "fatal" => Unexpected(err) = UnexpectedErrors(parsed.tree)
        /\ pc \in {"apply", "done"} =>
               \A e \in IdentsOf(heap) : ~HasPrefix(e.name, ":")

\* A colon-prefixed argument of a call reported, next to a colon-prefixed
\* target that is not.
C8_Witness ==
    /\ pc = "fatal" /\ parsed.ok
    /\ Unexpected(err) # {}
    /\ \E id \in DOMAIN parsed.tree :
           parsed.tree[id].kind = "assign" /\ Declares(parsed.tree[id])

Sorted(l) == \A j \in 1..(Len(l) - 1) : l[j].pos <= l[j + 1].pos

\* C7 as stated: a unit with a ":=" and a mistake the walk would find gets
\* both reported.
C7_Original ==
    (pc = "fatal" /\ HasDefine(src) /\ ClassErrors(heap) # {}) =>
        /\ \E e \in Range(err) : e.msg = "evil token"
        /\ \E e \in Range(err) : e.msg # "evil token"

\* C7: the errors of a run are those of the scan, one for each ":=" in the
\* order of the source, and then no tree is built and the walk adds none;
\* or, with no error from the scan and the parser, those of the walk, each
\* mixed init or range statement and each unexpected colon-prefix, sorted by
\* position.
C7_Accumulated ==
    pc = "fatal" =>
        /\ Sorted(err)
        /\ IF HasDefine(src)
           THEN err = DefineErrors(src, Len(src)) /\ ~parsed.ok
           ELSE parsed.ok =>
                    /\ Range(err) = ClassErrors(parsed.tree)
                    /\ Len(err) = Cardinality(ClassErrors(parsed.tree))

\* A ":=" and a mixed init statement or a stray colon-prefix in one unit.
C7_Witness ==
    /\ pc = "fatal"
    /\ HasDefine(src)
    /\ ClassErrors(heap) # {}

\* ------------------------------------------------------------------------
\* Properties of the changes (Spec): what one c.apply does to the tree.

\* The changes applied by the step, as the pending ones it removes.
AppliedNow == IF pc = "apply" /\ pc' = "apply" THEN pending \ pending' ELSE {}

\* Statement x is a, or a label of a label ... of a.
RECURSIVE Reaches(_, _, _)
Reaches(h, x, a) ==
    \/ x = a
    \/ h[x].kind = "labeled" /\ Reaches(h, h[x].stmt, a)

\* The lists of h, and the places <<n, k>> where list n holds, at index k,
\* the statement a or its outermost label.
Lists(h) == {n \in DOMAIN h : h[n].kind \in {"block", "comm"}}
PlacesOf(h, a) ==
    {p \in UNION {{<<n, k>> : k \in 1..Len(h[n].list)} : n \in Lists(h)} :
        Reaches(h, h[p[1]].list[p[2]], a)}

\* The labels whose statement is a.
LabelsOf(h, a) == {l \in DOMAIN h : h[l].kind = "labeled" /\ h[l].stmt = a}

\* The indexes of the targets that are not "_", in order.
RECURSIVE TakenFrom(_, _)
TakenFrom(was, j) ==
    IF j > Len(was) THEN <<>>
    ELSE (IF IsDiscard(was[j]) THEN <<>> ELSE <<j>>) \o TakenFrom(was, j + 1)

IsTemp(e) == e.ident /\ HasPrefix(e.name, tempTag)

\* What the claim says of a mixed assignment a with the targets was as
\* parsed, from the tree h to the tree h2.
MixedResult(h, h2, a, was) ==
    LET taken == TakenFrom(was, 1)
        fresh == DOMAIN h2 \ DOMAIN h
    IN  /\ Cardinality(PlacesOf(h, a)) = 1
        /\ LET p == CHOOSE q \in PlacesOf(h, a) : TRUE
               n == p[1]
               k == p[2]
               old == h[n].list
               new == SubSeq(h2[n].list, k + 1, k + Len(taken))
           IN  /\ h[a].tok = "ASSIGN" /\ h2[a].tok = "DEFINE"
               /\ h2[a].rhs = h[a].rhs
               /\ Len(h2[a].lhs) = Len(was)
               /\ \A j \in 1..Len(was) :
                      IF IsDiscard(was[j]) THEN h2[a].lhs[j] = was[j]
                      ELSE /\ IsTemp(h2[a].lhs[j])
                           /\ \A e \in IdentsOf(h) : e.name # h2[a].lhs[j].name
                           /\ \A i \in 1..Len(was) :
                                  (i # j /\ ~IsDiscard(was[i])) =>
                                      h2[a].lhs[i].name # h2[a].lhs[j].name
               /\ Len(h2[n].list) = Len(old) + Len(taken)
               /\ SubSeq(h2[n].list, 1, k) = SubSeq(old, 1, k)
               /\ SubSeq(h2[n].list, k + Len(taken) + 1, Len(h2[n].list))
                      = SubSeq(old, k + 1, Len(old))
               /\ Cardinality(fresh) = Len(taken)
               /\ \A m \in 1..Len(taken) :
                      LET j == taken[m]
                          st == h2[new[m]]
                      IN  /\ new[m] \in fresh
                          /\ IF IsMarked(was[j])
                             THEN /\ st.kind = "decl"
                                  /\ st.names = <<[was[j] EXCEPT !.name = Tail(@)]>>
                                  /\ st.values = <<h2[a].lhs[j]>>
                             ELSE /\ st.kind = "assign"
                                  /\ st.tok = "ASSIGN"
                                  /\ st.lhs = <<was[j]>>
                                  /\ st.rhs = <<h2[a].lhs[j]>>
               /\ \A id \in DOMAIN h \ {a, n} : h2[id] = h[id]
               /\ n # a => [h2[n] EXCEPT !.list = old] = h[n]

\* The assignments of the parsed tree that get a change.
Changed(h) ==
    {a \in DOMAIN h : h[a].kind = "assign" /\ ~InitPosition(h, a) /\ Declares(h[a])}

DeclResult(h, h2, a, was) ==
    LET fresh == DOMAIN h2 \ DOMAIN h
    IN  /\ Cardinality(fresh) = 1
        /\ Cardinality(PlacesOf(h, a)) = 1
        /\ LET d == CHOOSE x \in fresh : TRUE
               p == CHOOSE q \in PlacesOf(h, a) : TRUE
           IN  /\ h2[d].kind = "decl"
               /\ Len(h2[d].names) = Len(was)
               /\ \A j \in 1..Len(was) :
                      h2[d].names[j] =
                          IF IsMarked(was[j]) THEN [was[j] EXCEPT !.name = Tail(@)]
                          ELSE was[j]
               /\ h2[d].values = h[a].rhs
               /\ IF LabelsOf(h, a) # {}
                  THEN \A id \in DOMAIN h :
                           h2[id] = IF id \in LabelsOf(h, a)
                                    THEN [h[id] EXCEPT !.stmt = d] ELSE h[id]
                  ELSE /\ h[p[1]].list[p[2]] = a
                       /\ \A id \in DOMAIN h :
                              h2[id] = IF id = p[1]
                                       THEN [h[id] EXCEPT !.list[p[2]] = d]
                                       ELSE h[id]
               /\ \A n \in Lists(h) : Len(h2[n].list) = Len(h[n].list)

\* The statements a tree holds in its lists and under its labels.
Held(h) ==
    UNION {Range(h[n].list) : n \in Lists(h)}
        \cup {h[l].stmt : l \in {x \in DOMAIN h : h[x].kind = "labeled"}}

\* C2: the step that applies the change of an assignment whose targets are
\* colon-prefixed names and "_" only puts in its place, under its label or
\* at its index of the list, one var declaration of the names in order,
\* without the colons, with the right side as values; the lists keep their
\* lengths and their other statements.  No such assignment is left in a
\* translated file.
C2_NonMixed ==
    /\ [][\A j \in AppliedNow :
              LET a == clist[j].assign
              IN  DeclNode(parsed.tree[a]) =>
                      DeclResult(heap, heap', a, parsed.tree[a].lhs)]_vars
    /\ [](pc = "done" =>
              \A a \in Changed(parsed.tree) :
                  DeclNode(parsed.tree[a]) => a \notin Held(heap))

\* "L: M: :a, _ = f()" became "L: M: var a, _ = f()".
C2_Witness ==
    /\ pc = "done" /\ parsed.ok
    /\ \E l \in DOMAIN parsed.tree, m \in DOMAIN parsed.tree :
           /\ parsed.tree[l].kind = "labeled" /\ parsed.tree[l].stmt = m
           /\ parsed.tree[m].kind = "labeled"
           /\ heap[heap[m].stmt].kind = "decl"
           /\ Len(heap[heap[m].stmt].names) = 2
           /\ heap[heap[m].stmt].names[2].name = <<"_">>
           /\ heap[l].stmt = m

\* ------------------------------------------------------------------------
\* Properties of the order of the changes (SpecOrder).

\* The changes cl from the j-th on, applied in the order of the list.
RECURSIVE ApplyAll(_, _, _, _)
ApplyAll(h, t, cl, j) ==
    IF j > Len(cl) THEN h
    ELSE LET r == apply(cl[j], h, t)
         IN  ApplyAll(r.heap, r.tc, cl, j + 1)

\* A temporary named after the assignment and the target it stands for.
CanonTemp(h, e) ==
    IF e = NoExpr \/ ~IsTemp(e) THEN e
    ELSE LET at == {q \in UNION {{<<a, j>> : j \in 1..Len(TargetsOf(h[a]))} :
                                    a \in {x \in DOMAIN h : h[x].kind = "assign"}} :
                       /\ h[q[1]].tok = "DEFINE"
                       /\ h[q[1]].lhs[q[2]].name = e.name}
             q == CHOOSE x \in at : TRUE
         IN  IF at = {} THEN e
             ELSE [e EXCEPT !.name = <<tempTag, ToString(q[1]), ".", ToString(q[2])>>]

\* The file a tree prints as, up to the numbering of the temporaries.
Canon(h) ==
    Shape(Fprint([id \in DOMAIN h |-> MapExprs(h[id], LAMBDA e : CanonTemp(h, e))]))

\* The statements the change c adds, and the temporaries it takes.
Added(c) ==
    IF MixedNode(parsed.tree[c.assign])
    THEN Len(TakenFrom(parsed.tree[c.assign].lhs, 1)) ELSE 1
Temps(c) ==
    IF MixedNode(parsed.tree[c.assign])
    THEN Len(TakenFrom(parsed.tree[c.assign].lhs, 1)) ELSE 0

\* The sum of n[j] over the j of S.
RECURSIVE SumOver(_, _)
SumOver(S, n) ==
    IF S = {} THEN 0
    ELSE LET x == CHOOSE y \in S : TRUE IN n[x] + SumOver(S \ {x}, n)

\* C10: in whatever order the changes are applied, indexStmt finds its
\* statement each time; the tree has grown by the statements of the changes
\* applied so far and the counter by their temporaries, each change counted
\* once; and when all are applied the file is the one the order of the list
\* gives, up to the numbering of the temporaries.
C10_Order ==
    /\ ~panics /\ pc # "panic"
    /\ pc \in {"apply", "done"} =>
           LET applied == (1..Len(clist)) \ pending
           IN  /\ Cardinality(DOMAIN heap) =
                      Cardinality(DOMAIN walked)
                          + SumOver(applied, [j \in applied |-> Added(clist[j])])
               /\ tc = SumOver(applied, [j \in applied |-> Temps(clist[j])])
               /\ \A j \in applied : clist[j].assign \notin Held(heap)
                                       \/ heap[clist[j].assign].tok = "DEFINE"
               /\ \A j \in pending : /\ clist[j].assign \in Held(heap)
                                     /\ heap[clist[j].assign].tok = "ASSIGN"
    /\ pc = "done" =>
           /\ pending = {}
           /\ Canon(heap) = Canon(ApplyAll(walked, 0, clist, 1))

\* Two mixed changes in one list, the first on a labeled statement, the
\* second applied before the first.
C10_Witness ==
    /\ pc = "done"
    /\ Len(clist) = 2
    /\ clist[1].kind # Nil /\ clist[2].kind # Nil
    /\ clist[1].ptr # 0
    /\ clist[1].list = clist[2].list
    /\ heap[clist[2].assign].lhs[1].name = TempName(0)

\* ------------------------------------------------------------------------
\* Properties of the translator on its own output (SpecTwice).

\* The first run turned an "=" of the tree it parsed into ":=".
MadeDefine(h) ==
    \E a \in DOMAIN h :
        \/ a \in Changed(h) /\ MixedNode(h[a])
        \/ InitPosition(h, a) /\ DeclNode(h[a])

\* C6 as stated: the second run succeeds and changes nothing.
C6_Original ==
    run = 2 => (pc # "fatal" /\ (pc = "done" => gen.toks = src))

\* C6: the translated file has no colon prefix, so the second run's scan
\* modifies nothing.  It has a ":=" exactly when the first run applied a
\* mixed change or declared in an init, range or communication statement,
\* and then the second run ends in the errors of those ":="; without one the
\* second run records no change and prints its source again.
C6_Idempotent ==
    /\ (run = 1 /\ pc = "done") =>
           (HasDefine(gen.toks) <=> MadeDefine(parsed.tree))
    /\ run = 2 =>
           /\ pc # "start" => sc.buf = Bytes(src)
           /\ IF HasDefine(src)
              THEN /\ pc \in {"start", "fatal"}
                   /\ pc = "fatal" => err = DefineErrors(src, Len(src))
                   /\ ~gen.ok
              ELSE /\ pc # "fatal"
                   /\ clist = <<>> /\ tc = 0
                   /\ pc = "done" => gen.toks = src

\* A second run that succeeds on a file the first run put a declaration in.
C6_Witness ==
    /\ run = 2 /\ pc = "done"
    /\ \E id \in DOMAIN heap : heap[id].kind = "decl"
    /\ gen.toks = src

====
